---------------------------- MODULE Spec2Model ----------------------------
(***************************************************************************)
(* A model of agent_brain.py, the nightly autonomous coding agent:         *)
(*   - send_message_with_retry : the retry loop round chat.send_message    *)
(*   - setup_git_branch / push_changes : the git side of a run             *)
(*   - extract_and_save_code   : the "### FILE:" block parser and writer   *)
(*   - run_tests, send_discord : the test runner and the webhook           *)
(*   - main                    : plan, implement, validate, repair,        *)
(*                               document, publish                         *)
(* Strings of the program are sequences of one-character strings, so that  *)
(* substring tests, strip() and the regular expression are computed.       *)
(***************************************************************************)
EXTENDS Integers, Sequences, FiniteSets, TLC

VARIABLES
    pc,                  \* position in main (or in a harness call)
    GEMINI_API_KEY,      \* TRUE iff the environment holds a non-empty key
    model,               \* "None" or "ok": the module-level GenerativeModel
    DISCORD_WEBHOOK_URL, \* TRUE iff the environment holds a webhook URL
    history,             \* chat.history: the turns of the conversation
    prompt,              \* parameter of the send_message_with_retry call
    max_retries,         \* parameter of the send_message_with_retry call
    attempt,             \* loop variable of send_message_with_retry
    error_msg,           \* str(e) of the last exception the call caught
    calls,               \* chat.send_message calls made by the current call
    slept,               \* time.sleep durations of the current call
    res,                 \* text of the response the current call returned
    err,                 \* str(e) of the exception in flight, or "none"
    requests,            \* stages whose prompt main handed to the request layer
    fsFiles,             \* file system: resolved path -> content
    fsDirs,              \* file system: resolved paths that are directories
    fsOps,               \* os.makedirs / open calls made, in order
    saved,               \* saved_files of the last extract_and_save_code
    files,               \* main's `files`
    status_msg,          \* main's status_msg
    testRuns,            \* results of the run_tests calls, in order
    branch,              \* git: the current branch
    heads,               \* git: local branch -> its commits, oldest first
    remote,              \* git: branch on origin -> its commits
    gitLog,              \* git: commits and pushes made by push_changes
    pushed,              \* "True" or "False" as push_changes returned, or "none"
    posted               \* webhook POSTs made by send_discord, in order

vars == <<pc, GEMINI_API_KEY, model, DISCORD_WEBHOOK_URL, history, prompt,
          max_retries, attempt, error_msg, calls, slept, res, err, requests, fsFiles, fsDirs, fsOps,
          saved, files, status_msg, testRuns, branch, heads, remote, gitLog,
          pushed, posted>>

-----------------------------------------------------------------------------
(* Strings *)

\* `sub in s` of Python
Contains(s, sub) ==
    \E i \in 1..(Len(s) - Len(sub) + 1) : SubSeq(s, i, i + Len(sub) - 1) = sub

\* s.startswith(p)
StartsWith(s, p) == Len(s) >= Len(p) /\ SubSeq(s, 1, Len(p)) = p

\* the characters str.strip() removes
IsSpace(c) == c \in {" ", "\n", "\t"}

RECURSIVE LStrip(_)
LStrip(s) == IF s # <<>> /\ IsSpace(Head(s)) THEN LStrip(Tail(s)) ELSE s

RECURSIVE RStrip(_)
RStrip(s) ==
    IF s # <<>> /\ IsSpace(s[Len(s)]) THEN RStrip(SubSeq(s, 1, Len(s) - 1)) ELSE s

\* s.strip()
Strip(s) == RStrip(LStrip(s))

-----------------------------------------------------------------------------
(* The model service, as chat.send_message shows it to the program *)

\* str(e) of the exceptions chat.send_message raises: quota, server error,
\* permission, bad request, unknown model, invalid key
ErrorMsgs ==
    { <<"4", "2", "9", " ", "q", "u", "o", "t", "a">>,
      <<"5", "0", "0", " ", "i", "n", "t", "e", "r", "n", "a", "l">>,
      <<"4", "0", "3", " ", "d", "e", "n", "i", "e", "d">>,
      <<"4", "0", "0", " ", "b", "a", "d">>,
      <<"4", "0", "4", " ", "m", "o", "d", "e", "l">>,
      <<"A", "P", "I", " ", "k", "e", "y", " ", "b", "a", "d">> }

\* line 61: the messages after which the call gives up at once
IsFatalMsg(msg) ==
    \/ Contains(msg, <<"4", "0", "4">>)
    \/ Contains(msg, <<"4", "0", "0">>)
    \/ Contains(msg, <<"A", "P", "I", " ", "k", "e", "y">>)

\* the two exceptions send_message_with_retry raises itself
API_KEY_ERROR == "API KEY ERROR: Please check your key at aistudio.google.com"
EXHAUSTED == "Failed after 3 retries. Check GitHub Actions logs."

\* line 64
SLEEP_SECONDS == 5

\* the default of the max_retries parameter
DEFAULT_MAX_RETRIES == 3

\* the prompts of main, by stage
Prompts == {"plan", "implement", "repair", "document"}

Turn(role, text) == [role |-> role, text |-> text]

-----------------------------------------------------------------------------
(* Paths and the file system *)

\* the directory the program runs in, and the one above it, as resolved paths
\* (sequences of components from the root)
CWD == << <<"w">> >>

\* F of the value of x: x is evaluated once, where a LET would evaluate it at
\* every use
With(x, F(_)) == CHOOSE r \in {F(v) : v \in {x}} : TRUE

\* the largest and the smallest element of a set of numbers
Max(S) == With(S, LAMBDA T : CHOOSE x \in T : \A y \in T : y <= x)
Min(S) == With(S, LAMBDA T : CHOOSE x \in T : \A y \in T : x <= y)

\* the indexes of "/" in p
Slashes(p) == {i \in 1..Len(p) : p[i] = "/"}

RECURSIVE RStripSlash(_)
RStripSlash(s) ==
    IF s # <<>> /\ s[Len(s)] = "/" THEN RStripSlash(SubSeq(s, 1, Len(s) - 1)) ELSE s

\* os.path.dirname (posixpath): up to the last "/", trailing slashes dropped
\* unless the head is slashes only
Dirname(p) ==
    IF Slashes(p) = {} THEN <<>>
    ELSE With(SubSeq(p, 1, Max(Slashes(p))), LAMBDA head :
            With(RStripSlash(head), LAMBDA stripped :
                IF stripped = <<>> THEN head ELSE stripped))

\* p split at "/" into its components, empty ones included
RECURSIVE Split(_)
Split(p) ==
    IF Slashes(p) = {} THEN <<p>>
    ELSE With(Min(Slashes(p)), LAMBDA i :
            With(SubSeq(p, i + 1, Len(p)), LAMBDA rest :
                <<SubSeq(p, 1, i - 1)>> \o Split(rest)))

\* the kernel's resolution of components from a resolved directory
RECURSIVE Walk(_, _)
Walk(at, comps) ==
    IF comps = <<>> THEN at
    ELSE LET c == Head(comps)
         IN IF c = <<>> \/ c = <<".">> THEN Walk(at, Tail(comps))
            ELSE IF c = <<".", ".">>
                 THEN Walk(IF at = <<>> THEN at ELSE SubSeq(at, 1, Len(at) - 1),
                           Tail(comps))
            ELSE Walk(Append(at, c), Tail(comps))

\* the resolved path a path string names
Resolve(p) == Walk(IF StartsWith(p, <<"/">>) THEN <<>> ELSE CWD, Split(p))

\* the proper and improper prefixes of a resolved path, shortest first
Prefixes(r) == [i \in 1..Len(r) |-> SubSeq(r, 1, i)]

Fs(f, d, o) == [files |-> f, dirs |-> d, ops |-> o]

\* os.makedirs(name, exist_ok=True): every missing directory on the way is
\* created; a file on the way raises, after the directories before it exist
MakedirsRaises(fs, name) ==
    \E r \in {Resolve(name)} :
        \E i \in 1..Len(r) : SubSeq(r, 1, i) \in DOMAIN fs.files

Makedirs(fs, name) ==
    With(Resolve(name), LAMBDA r :
        LET bad == {i \in 1..Len(r) : SubSeq(r, 1, i) \in DOMAIN fs.files}
            upto == IF bad = {} THEN Len(r) ELSE Min(bad) - 1
        IN Fs(fs.files,
              fs.dirs \cup {SubSeq(r, 1, i) : i \in 1..upto},
              Append(fs.ops, <<"makedirs", name>>)))

Parent(r) == SubSeq(r, 1, Len(r) - 1)

\* open(file_path, "w"): raises for a directory, a trailing "/", or a parent
\* that is no directory
OpenRaises(fs, file_path) ==
    \E r \in {Resolve(file_path)} :
       \/ r \in fs.dirs
       \/ r = <<>>
       \/ file_path[Len(file_path)] = "/"
       \/ Parent(r) \notin fs.dirs

\* with open(file_path, "w") as f: f.write(content): the file holds content and
\* nothing else
WriteFile(fs, file_path, content) ==
    With(Resolve(file_path), LAMBDA r :
        Fs([q \in DOMAIN fs.files \cup {r} |->
               IF q = r THEN content ELSE fs.files[q]],
           fs.dirs,
           Append(fs.ops, <<"open", file_path>>)))

-----------------------------------------------------------------------------
(* extract_and_save_code *)

\* A response text is a sequence of characters in which the marker
\* "### FILE: " is the one element "#" and the fence of three backquotes the one element "~".
HDR == "#"
FENCE == "~"
NL == "\n"

\* \w of the pattern
IsWord(c) == c \notin {HDR, FENCE, NL, " ", "\t", "/", ".", "-"}

\* the first index >= k of t that holds no word character (Len(t) + 1 if none)
WordsEnd(t, k) ==
    Min({n \in k..(Len(t) + 1) : n = Len(t) + 1 \/ ~IsWord(t[n])})

\* the indexes >= c of t that hold a fence
FencesFrom(t, c) == {e \in c..Len(t) : t[e] = FENCE}

\* The pattern of line 103 with re.DOTALL, tried at index i of t:
\*   ### FILE: (.+?)\n```(?:\w+)?\n(.*?)```
\* j is the "\n" that ends the lazy path group: the first one, after at least
\* one character, from which the rest of the pattern matches.
PathEnds(t, i) ==
    {j \in (i + 2)..(Len(t) - 1) :
        /\ t[j] = NL
        /\ t[j + 1] = FENCE
        /\ LET k == WordsEnd(t, j + 2)
           IN /\ k <= Len(t)
              /\ t[k] = NL
              /\ FencesFrom(t, k + 1) # {}}

Matches(t, i) == t[i] = HDR /\ PathEnds(t, i) # {}

\* the groups of the match at i, and the index after the match
MatchAt(t, i) ==
    LET j == Min(PathEnds(t, i))
        k == WordsEnd(t, j + 2)
        e == Min(FencesFrom(t, k + 1))
    IN [path |-> SubSeq(t, i + 1, j - 1),
        code |-> SubSeq(t, k + 1, e - 1),
        end |-> e + 1]

\* re.findall(pattern, response_text, re.DOTALL): the matches from left to
\* right, none overlapping: the next match is the one at the first index, from
\* the end of the match before, at which the pattern matches
RECURSIVE FindAllFrom(_, _)
FindAllFrom(t, i) ==
    With({n \in i..Len(t) : Matches(t, n)}, LAMBDA starts :
        IF starts = {} THEN <<>>
        ELSE With(MatchAt(t, Min(starts)), LAMBDA m :
                <<m>> \o FindAllFrom(t, m.end)))

FindAll(response_text) == FindAllFrom(response_text, 1)

\* the test without its second half
IsUnsafePathDotsOnly(file_path) == Contains(file_path, <<".", ".">>)

\* line 111: the paths the loop refuses
IsUnsafePath(file_path) ==
    Contains(file_path, <<".", ".">>) \/ StartsWith(file_path, <<"/">>)

\* the result of the loop so far: the file system, saved_files, and whether an
\* exception left the function
Ext(fs, sv, raised) == [fs |-> fs, saved |-> sv, raised |-> raised]

\* lines 114-120: a path that passed the tests of lines 108 and 111
SavePath(st, file_path, dir_name, code_content) ==
    With(IF dir_name # <<>> THEN Makedirs(st.fs, dir_name) ELSE st.fs,
         LAMBDA made :
            IF dir_name # <<>> /\ MakedirsRaises(st.fs, dir_name)
            THEN Ext(made, st.saved, "OSError")
            ELSE IF OpenRaises(made, file_path)
            THEN Ext(Fs(made.files, made.dirs,
                        Append(made.ops, <<"open", file_path>>)),
                     st.saved, "OSError")
            ELSE Ext(WriteFile(made, file_path, Strip(code_content)),
                     Append(st.saved, file_path), "none"))

\* lines 107-120: the body of the loop, for one match
SaveOne(st, m) ==
    With(Strip(m.path), LAMBDA file_path :
        IF file_path = <<>> THEN st
        ELSE IF IsUnsafePath(file_path) THEN st
        ELSE With(Dirname(file_path), LAMBDA dir_name :
                SavePath(st, file_path, dir_name, m.code)))

\* lines 105-121: the loop over the matches; an exception ends it
RECURSIVE SaveAll(_, _)
SaveAll(st, matches) ==
    IF matches = <<>> \/ st.raised # "none" THEN st
    ELSE With(SaveOne(st, Head(matches)), LAMBDA next :
            SaveAll(next, Tail(matches)))

\* extract_and_save_code(response_text) run on the file system fs
extract_and_save_code(response_text, fs) ==
    With(FindAll(response_text), LAMBDA matches :
        SaveAll(Ext(fs, <<>>, "none"), matches))

-----------------------------------------------------------------------------
(* git *)

TODAY_BRANCH == "nightly"
MAIN_BRANCH == "main"

\* the files of the file system that lie in the repository: what git sees
WorkTree(f) ==
    [q \in {q \in DOMAIN f : Len(q) > Len(CWD) /\ StartsWith(q, CWD)} |-> f[q]]

\* the content of path q in tree t, ABSENT if t holds no such file
ABSENT == <<"absent">>

At(t, q) == IF q \in DOMAIN t THEN t[q] ELSE ABSENT

Commit(id, tree) == [id |-> id, tree |-> tree]

\* the tree of the newest commit of a local branch
TipTree(hd, b) == hd[b][Len(hd[b])].tree

Git(b, hd, f) == [branch |-> b, heads |-> hd, files |-> f]

\* git checkout <name>: succeeds iff the branch exists and no locally changed
\* file differs between the two branches
CheckoutOk(g, name) ==
    /\ name \in DOMAIN g.heads
    /\ LET cur == TipTree(g.heads, g.branch)
           tgt == TipTree(g.heads, name)
           wt == WorkTree(g.files)
       IN \A q \in DOMAIN cur \cup DOMAIN tgt \cup DOMAIN wt :
              At(wt, q) # At(cur, q) => At(cur, q) = At(tgt, q)

\* its effect: the files that differ between the branches are replaced, local
\* changes to the others are carried over
Checkout(g, name) ==
    LET cur == TipTree(g.heads, g.branch)
        tgt == TipTree(g.heads, name)
        wt == WorkTree(g.files)
        all == DOMAIN cur \cup DOMAIN tgt \cup DOMAIN wt
        new(q) == IF At(cur, q) = At(tgt, q) THEN At(wt, q) ELSE At(tgt, q)
        keep == {q \in DOMAIN g.files : q \notin all} \cup
                {q \in all : new(q) # ABSENT}
    IN Git(name, g.heads,
           [q \in keep |-> IF q \in all THEN new(q) ELSE g.files[q]])

\* git checkout -b <name>: succeeds iff no such branch exists; the new branch
\* starts at the current commit and the files stay as they are
CheckoutNewOk(g, name) == name \notin DOMAIN g.heads

CheckoutNew(g, name) ==
    Git(name,
        [b \in DOMAIN g.heads \cup {name} |->
            IF b = name THEN g.heads[g.branch] ELSE g.heads[b]],
        g.files)

\* setup_git_branch, lines 75-77: both commands run with their failure ignored
setup_git_branch(g) ==
    IF CheckoutOk(g, TODAY_BRANCH) THEN Checkout(g, TODAY_BRANCH)
    ELSE IF CheckoutNewOk(g, TODAY_BRANCH) THEN CheckoutNew(g, TODAY_BRANCH)
    ELSE g

\* the test of the status that never finds it empty
StatusCleanNever(g) == FALSE

\* git add . ; git status --porcelain: empty iff the files are those of HEAD
StatusClean(g) == WorkTree(g.files) = TipTree(g.heads, g.branch)

\* git commit: a new commit on the current branch
CommitAll(g) ==
    [g EXCEPT !.heads[g.branch] =
        Append(@, Commit("run", WorkTree(g.files)))]

IsPrefix(a, b) == Len(a) <= Len(b) /\ SubSeq(b, 1, Len(a)) = a

\* git push origin <name>: succeeds iff the local branch exists and origin's
\* branch, if any, is an ancestor of it
PushOk(hd, rm, name) ==
    /\ name \in DOMAIN hd
    /\ name \in DOMAIN rm => IsPrefix(rm[name], hd[name])

Push(hd, rm, name) ==
    [b \in DOMAIN rm \cup {name} |-> IF b = name THEN hd[name] ELSE rm[b]]

\* push_changes, lines 82-89: [git, remote, log, ret]
push_changes(g, rm, lg) ==
    IF StatusClean(g)
    THEN [git |-> g, remote |-> rm, log |-> lg, ret |-> FALSE]
    ELSE LET c == CommitAll(g)
             ok == PushOk(c.heads, rm, TODAY_BRANCH)
         IN [git |-> c,
             remote |-> IF ok THEN Push(c.heads, rm, TODAY_BRANCH) ELSE rm,
             log |-> lg \o << <<"commit", g.branch>>,
                              <<"push", TODAY_BRANCH, ok>> >>,
             ret |-> TRUE]

-----------------------------------------------------------------------------
(* run_tests and send_discord *)

\* what subprocess.run(["pytest", ...], timeout=120) does: the runner exits
\* with a status (5: no test was collected), is not installed, or runs out of
\* time
TestOutcomes ==
    {"exit 0", "exit 1", "exit 5", "FileNotFoundError", "TimeoutExpired"}

\* the result of a run_tests call: what it returns, or the exception that
\* leaves it
TestResult(passed, log, raised) ==
    [passed |-> passed, log |-> log, raised |-> raised]

\* run_tests without the clause of line 130
run_testsNoTimeoutClause(outcome) ==
    CASE outcome = "FileNotFoundError" ->
             TestResult(FALSE, "pytest not found", "none")
      [] outcome = "TimeoutExpired" ->
             TestResult(FALSE, "", "TimeoutExpired")
      [] OTHER -> TestResult(outcome = "exit 0", outcome, "none")

\* run_tests, lines 125-131
run_tests(outcome) ==
    CASE outcome = "FileNotFoundError" ->
             TestResult(FALSE, "pytest not found", "none")
      [] outcome = "TimeoutExpired" ->
             TestResult(FALSE, "Tests timed out", "none")
      [] OTHER -> TestResult(outcome = "exit 0", outcome, "none")

\* the length of the strings a notification is made of
StrLen(str) ==
    CASE str = API_KEY_ERROR -> 62
      [] str = EXHAUSTED -> 51
      [] OTHER -> 40

RECURSIVE MsgLen(_)
MsgLen(msg) == IF msg = <<>> THEN 0 ELSE StrLen(Head(msg)) + MsgLen(Tail(msg))

\* msg[:2000]
Cut2000(msg) == IF MsgLen(msg) <= 2000 THEN msg ELSE <<"first 2000 characters">>

\* send_discord without the test of the webhook
send_discordAlways(url, sent, msg) == Append(sent, Cut2000(msg))

\* send_discord with the test of the webhook the wrong way round
send_discordInverted(url, sent, msg) ==
    IF ~url THEN Append(sent, Cut2000(msg)) ELSE sent

\* send_discord, lines 135-139: a POST iff the webhook is configured; a
\* failure of the POST is swallowed
send_discord(url, sent, msg) == IF url THEN Append(sent, Cut2000(msg)) ELSE sent

-----------------------------------------------------------------------------
(* The inputs of a run *)

\* a block in the format of SYSTEM_PROMPT, lines 33-36
Block(path, lang, body) ==
    <<HDR>> \o path \o <<NL, FENCE>> \o lang \o <<NL>> \o body \o <<FENCE>>

\* the responses the model service gives in a run: prose only; a file above
\* the repository, then one in a directory of it; a file below the path of a
\* file that exists
Responses ==
    { <<"o", "k">>,
      Block(<<".", ".", "/", "e">>, <<>>, <<"x", NL>>)
          \o <<NL>> \o Block(<<"d", "/", "b">>, <<"p", "y">>, <<"y", NL>>),
      Block(<<"a", "/", "b">>, <<>>, <<"x", NL>>) }

\* the commits that exist before the run: the default branch's, and the one an
\* earlier run of the day left on the nightly branch
FileA == Append(CWD, <<"a">>)
C0 == Commit("c0", [q \in {FileA} |-> <<"x">>])
C1 == Commit("c1", [q \in {FileA} |-> <<"y">>])

\* the directories and files outside the repository
BaseDirs == {<<>>, CWD}

\* the repositories a run starts in: the local branches, the current branch,
\* origin's nightly branch, and whether file a has an uncommitted change
Repos ==
    { r \in [heads : { [b \in {MAIN_BRANCH} |-> <<C0>>],
                       [b \in {MAIN_BRANCH, TODAY_BRANCH} |->
                           IF b = MAIN_BRANCH THEN <<C0>> ELSE <<C0, C1>>] },
             branch : {MAIN_BRANCH, TODAY_BRANCH},
             remote : { [b \in {} |-> <<>>],
                        [b \in {TODAY_BRANCH} |-> <<C0, C1>>] },
             edited : BOOLEAN] :
        r.branch \in DOMAIN r.heads }

\* the files of a repository of Repos
RepoFiles(r) ==
    [q \in {FileA} |->
        IF r.edited THEN <<"l">> ELSE TipTree(r.heads, r.branch)[FileA]]

-----------------------------------------------------------------------------
(* send_message_with_retry *)

envVars == <<GEMINI_API_KEY, model, DISCORD_WEBHOOK_URL>>
fsVars == <<fsFiles, fsDirs, fsOps>>
gitVars == <<branch, heads, remote, gitLog, pushed>>
runVars == <<requests, saved, files, status_msg, testRuns, posted>>

\* the call send_message_with_retry(chat, p, n) begins
BeginCall(p, n) ==
    /\ prompt' = p
    /\ max_retries' = n
    /\ attempt' = 0
    /\ error_msg' = <<>>
    /\ calls' = 0
    /\ slept' = <<>>

\* the loop with one turn too many
InLoopOneMore == attempt <= max_retries

\* line 54: the loop goes on
InLoop == attempt < max_retries

\* the fatal message raising the error of the exhausted loop
RaiseFatalAsExhausted(onRaise) ==
    /\ err' = EXHAUSTED
    /\ pc' = onRaise

\* line 62: the exception after a fatal message
RaiseFatal(onRaise) ==
    /\ err' = API_KEY_ERROR
    /\ pc' = onRaise

\* a sleep that grows by SLEEP_SECONDS with every turn of the loop
SleepAndRetryGrowing ==
    /\ slept' = Append(slept, SLEEP_SECONDS * (attempt + 1))
    /\ attempt' = attempt + 1

\* a retry that does not count its attempt
SleepAndRetrySameAttempt ==
    /\ slept' = Append(slept, SLEEP_SECONDS)
    /\ attempt' = attempt

\* line 64, and the next turn of the loop
SleepAndRetry ==
    /\ slept' = Append(slept, SLEEP_SECONDS)
    /\ attempt' = attempt + 1

\* chat.send_message(p) of a ChatSession whose history is h: the session takes
\* the prompt and the response into its history once the service has
\* answered, and nothing when the call raises
send_messageReturned(h, p, text) == h \o <<Turn("user", p), Turn("model", text)>>

\* a failed call that leaves its prompt in the history
send_messageRaisedKeepsPrompt(h, p) == Append(h, Turn("user", p))

send_messageRaised(h, p) == h

\* lines 54-64, one turn of the loop: chat.send_message returns a response,
\* which the call returns (the chat keeps the prompt and the response), or
\* raises; a fatal message raises API_KEY_ERROR, any other sleeps and goes on
Attempt(onReturn, onRaise) ==
    /\ InLoop
    /\ calls' = calls + 1
    /\ \/ \E text \in Responses :
            /\ history' = send_messageReturned(history, prompt, text)
            /\ res' = text
            /\ pc' = onReturn
            /\ error_msg' = <<>>
            /\ UNCHANGED <<attempt, slept, err>>
       \/ \E e \in ErrorMsgs :
            /\ error_msg' = e
            /\ history' = send_messageRaised(history, prompt)
            /\ IF IsFatalMsg(e)
               THEN /\ RaiseFatal(onRaise)
                    /\ UNCHANGED <<res, attempt, slept>>
               ELSE /\ SleepAndRetry
                    /\ UNCHANGED <<res, err, pc>>
    /\ UNCHANGED <<prompt, max_retries>>

\* line 66: the loop is over and nothing was returned
Exhaust(onRaise) ==
    /\ ~InLoop
    /\ err' = EXHAUSTED
    /\ pc' = onRaise
    /\ UNCHANGED <<history, prompt, max_retries, attempt, error_msg, calls, slept,
                   res>>

-----------------------------------------------------------------------------
(* main *)

Stages == {"plan", "implement", "repair", "document"}

\* where main goes on when the request of a stage has returned
AfterStage(stage) ==
    CASE stage = "plan" -> "plan_x"
      [] stage = "implement" -> "implement_x"
      [] stage = "repair" -> "repair_x"
      [] stage = "document" -> "document_x"

\* main hands the prompt of a stage to send_message_with_retry
Send(stage) ==
    /\ pc' = stage
    /\ requests' = Append(requests, stage)
    /\ BeginCall(stage, DEFAULT_MAX_RETRIES)

\* the response's files are written; an exception of the file system leaves
\* the try block
Extract ==
    extract_and_save_code(res, Fs(fsFiles, fsDirs, fsOps))

Written(x) ==
    /\ fsFiles' = x.fs.files
    /\ fsDirs' = x.fs.dirs
    /\ fsOps' = x.fs.ops
    /\ saved' = x.saved

\* the test of the key alone
ConfigErrorKeyOnly == ~GEMINI_API_KEY

\* lines 146 and 150: the key is missing or the model was not made
ConfigError == ~GEMINI_API_KEY \/ model = "None"

\* lines 146-152: without a key or a model main returns at once
ConfigCheck ==
    /\ pc = "start"
    /\ pc' = IF ConfigError THEN "end" ELSE "setup"
    /\ UNCHANGED <<envVars, history, prompt, max_retries, attempt, error_msg, calls, slept,
                   res, err, fsVars, gitVars, runVars>>

\* lines 154-162: the branch, the chat, the first prompt
SetupBranch ==
    /\ pc = "setup"
    /\ \E g \in {setup_git_branch(Git(branch, heads, fsFiles))} :
          /\ branch' = g.branch
          /\ heads' = g.heads
          /\ fsFiles' = g.files
    /\ history' = <<>>
    /\ Send("plan")
    /\ UNCHANGED <<envVars, res, err, fsDirs, fsOps, remote, gitLog, pushed,
                   saved, files, status_msg, testRuns, posted>>

\* lines 162, 167, 179, 187: the request of the stage main is in
Request ==
    /\ pc \in Stages
    /\ \/ Attempt(AfterStage(pc), "failed")
       \/ Exhaust("failed")
    /\ UNCHANGED <<envVars, fsVars, gitVars, runVars>>

\* str(n) of a count
CountStr(n) ==
    CASE n = 0 -> "0" [] n = 1 -> "1" [] n = 2 -> "2" [] OTHER -> "3 or more"

\* an exception inside the try block: main goes to its except clause
Raise(e) ==
    /\ pc' = "failed"
    /\ err' = e

callVars == <<prompt, max_retries, attempt, error_msg, calls, slept>>

\* line 163, then 167
PlanExtract ==
    /\ pc = "plan_x"
    /\ \E x \in {Extract} :
          /\ Written(x)
          /\ IF x.raised # "none"
             THEN /\ Raise(x.raised)
                  /\ UNCHANGED <<callVars, requests>>
             ELSE /\ Send("implement")
                  /\ UNCHANGED err
    /\ UNCHANGED <<envVars, history, res, gitVars, files, status_msg, testRuns,
                   posted>>

\* a test that takes any list for a list of files
HasFilesAlways(saved_files) == TRUE

\* line 172: `if files:`
HasFiles(saved_files) == saved_files # <<>>

\* lines 168-172, then 187 when no file was written
ImplementExtract ==
    /\ pc = "implement_x"
    /\ \E x \in {Extract} :
          /\ Written(x)
          /\ IF x.raised # "none"
             THEN /\ Raise(x.raised)
                  /\ UNCHANGED <<callVars, requests, files, status_msg>>
             ELSE /\ files' = x.saved
                  /\ status_msg' = <<"Work Complete (no files generated)">>
                  /\ IF HasFiles(x.saved)
                     THEN /\ pc' = "validate"
                          /\ UNCHANGED <<callVars, requests>>
                     ELSE Send("document")
                  /\ UNCHANGED err
    /\ UNCHANGED <<envVars, history, res, gitVars, testRuns, posted>>

\* a run_tests call as main records it: what subprocess.run did, and the
\* result
TestRun(outcome) ==
    [outcome |-> outcome] @@ run_tests(outcome)

\* lines 173-179: the tests; passed, the status is the success and the
\* documentation is asked for, failed, the repair is asked for
Validate ==
    /\ pc = "validate"
    /\ \E outcome \in TestOutcomes :
        \E t \in {TestRun(outcome)} :
           /\ testRuns' = Append(testRuns, t)
           /\ IF t.raised # "none"
              THEN /\ Raise(t.raised)
                   /\ UNCHANGED <<callVars, requests, status_msg>>
              ELSE IF t.passed
              THEN /\ status_msg' = <<"Success!", CountStr(Len(files)), "files">>
                   /\ Send("document")
                   /\ UNCHANGED err
              ELSE /\ Send("repair")
                   /\ UNCHANGED <<status_msg, err>>
    /\ UNCHANGED <<envVars, history, res, fsVars, gitVars, saved, files,
                   posted>>

\* line 180
RepairExtract ==
    /\ pc = "repair_x"
    /\ \E x \in {Extract} :
          /\ Written(x)
          /\ IF x.raised # "none"
             THEN Raise(x.raised)
             ELSE /\ pc' = "revalidate"
                  /\ UNCHANGED err
    /\ UNCHANGED <<envVars, history, callVars, res, gitVars, requests, files,
                   status_msg, testRuns, posted>>

\* lines 181-187: the tests again, the status either way, the documentation
Revalidate ==
    /\ pc = "revalidate"
    /\ \E outcome \in TestOutcomes :
        \E t \in {TestRun(outcome)} :
           /\ testRuns' = Append(testRuns, t)
           /\ IF t.raised # "none"
              THEN /\ Raise(t.raised)
                   /\ UNCHANGED <<callVars, requests, status_msg>>
              ELSE /\ status_msg' = IF t.passed THEN <<"Fixed and Verified">>
                                                 ELSE <<"Auto-fix Failed">>
                   /\ Send("document")
                   /\ UNCHANGED err
    /\ UNCHANGED <<envVars, history, res, fsVars, gitVars, saved, files,
                   posted>>

\* line 188
DocumentExtract ==
    /\ pc = "document_x"
    /\ \E x \in {Extract} :
          /\ Written(x)
          /\ IF x.raised # "none"
             THEN Raise(x.raised)
             ELSE /\ pc' = "publish"
                  /\ UNCHANGED err
    /\ UNCHANGED <<envVars, history, callVars, res, gitVars, requests, files,
                   status_msg, testRuns, posted>>

\* the tests run once more after push_changes
AfterPublishValidate == "validate"

\* lines 190-193: what follows push_changes is the report of the run
AfterPublish == "notify"

\* line 190: push_changes()
Publish ==
    /\ pc = "publish"
    /\ \E r \in {push_changes(Git(branch, heads, fsFiles), remote, gitLog)} :
          /\ heads' = r.git.heads
          /\ remote' = r.remote
          /\ gitLog' = r.log
          /\ pushed' = IF r.ret THEN "True" ELSE "False"
    /\ pc' = AfterPublish
    /\ UNCHANGED <<envVars, history, callVars, res, err, fsVars, branch,
                   runVars>>

\* lines 191-193: the report of the run
Notify ==
    /\ pc = "notify"
    /\ posted' = send_discord(DISCORD_WEBHOOK_URL, posted,
                    IF pushed = "True"
                    THEN <<"Nightly Report:">> \o status_msg
                    ELSE <<"Nightly Run: No changes detected.">>)
    /\ pc' = "done"
    /\ UNCHANGED <<envVars, history, callVars, res, err, fsVars, gitVars,
                   requests, saved, files, status_msg, testRuns>>

\* lines 195-198: the except clause
Failed ==
    /\ pc = "failed"
    /\ posted' = send_discord(DISCORD_WEBHOOK_URL, posted,
                              <<"Nightly Agent Failed:", err>>)
    /\ pc' = "done"
    /\ UNCHANGED <<envVars, history, callVars, res, err, fsVars, gitVars,
                   requests, saved, files, status_msg, testRuns>>

\* the states main starts in: the environment, the repository
Init ==
    /\ pc = "start"
    /\ GEMINI_API_KEY \in BOOLEAN
    /\ model \in {"None", "ok"}
    /\ GEMINI_API_KEY = FALSE => model = "None"
    /\ DISCORD_WEBHOOK_URL \in BOOLEAN
    /\ history = <<>>
    /\ prompt = "none"
    /\ max_retries = 0
    /\ attempt = 0
    /\ error_msg = <<>>
    /\ calls = 0
    /\ slept = <<>>
    /\ res = <<>>
    /\ err = "none"
    /\ requests = <<>>
    /\ \E r \in Repos :
        /\ branch = r.branch
        /\ heads = r.heads
        /\ remote = r.remote
        /\ fsFiles = RepoFiles(r)
    /\ fsDirs = BaseDirs
    /\ fsOps = <<>>
    /\ saved = <<>>
    /\ files = <<>>
    /\ status_msg = <<>>
    /\ testRuns = <<>>
    /\ gitLog = <<>>
    /\ pushed = "none"
    /\ posted = <<>>

Next ==
    \/ ConfigCheck
    \/ SetupBranch
    \/ Request
    \/ PlanExtract
    \/ ImplementExtract
    \/ Validate
    \/ RepairExtract
    \/ Revalidate
    \/ DocumentExtract
    \/ Publish
    \/ Notify
    \/ Failed

Spec == Init /\ [][Next]_vars

\* main is one sequential process: while a statement is left to run and the
\* call it makes returns or raises, it runs
SpecFair == Spec /\ WF_vars(Next)

-----------------------------------------------------------------------------
(* send_message_with_retry called on its own *)

\* the largest max_retries tried
MaxRetriesTried == 4

\* the values of the variables no call has touched
Untouched ==
    /\ GEMINI_API_KEY = TRUE
    /\ model = "ok"
    /\ DISCORD_WEBHOOK_URL = TRUE
    /\ err = "none"
    /\ requests = <<>>
    /\ fsDirs = BaseDirs
    /\ fsOps = <<>>
    /\ saved = <<>>
    /\ files = <<>>
    /\ status_msg = <<>>
    /\ testRuns = <<>>
    /\ gitLog = <<>>
    /\ pushed = "none"
    /\ posted = <<>>

\* the call not yet begun: no request-layer call in progress, one commit
IdleCallAndGit ==
    /\ attempt = 0
    /\ error_msg = <<>>
    /\ calls = 0
    /\ slept = <<>>
    /\ branch = MAIN_BRANCH
    /\ heads = [b \in {MAIN_BRANCH} |-> <<C0>>]
    /\ remote = [b \in {} |-> <<>>]
    /\ fsFiles = C0.tree

\* a chat, empty or holding one earlier exchange, a prompt, a max_retries
RetryInit ==
    /\ Untouched
    /\ IdleCallAndGit
    /\ pc = "call"
    /\ history \in {<<>>, <<Turn("user", "plan"), Turn("model", <<"o", "k">>)>>}
    /\ prompt \in Prompts
    /\ max_retries \in 0..MaxRetriesTried
    /\ res = <<>>

RetryCall ==
    /\ pc = "call"
    /\ \/ Attempt("returned", "raised")
       \/ Exhaust("raised")
    /\ UNCHANGED <<envVars, fsVars, gitVars, runVars>>

RetryNext == RetryCall

SpecRetry == RetryInit /\ [][RetryNext]_vars

\* C1: a send_message_with_retry(chat, prompt, N) call all of whose attempts
\* failed with a non-fatal error (each was followed by its sleep) has made at
\* most N calls of chat.send_message while it runs, and once over it has made
\* exactly N and has raised the exhaustion error, which is raised in no other
\* way.
C1_RetryBound ==
    /\ calls <= max_retries
    /\ (pc # "call" /\ Len(slept) = calls) =>
           (pc = "raised" /\ err = EXHAUSTED /\ calls = max_retries)
    /\ (pc = "raised" /\ err = EXHAUSTED) =>
           (calls = max_retries /\ Len(slept) = max_retries)

C1_Witness ==
    /\ pc = "raised"
    /\ err = EXHAUSTED
    /\ max_retries = 3
    /\ calls = 3
    /\ Len(slept) = 3

\* C2: when chat.send_message answers the first attempt with a message the
\* call classifies as fatal, the call has ended with that one attempt, has not
\* slept, and has raised an error other than the exhaustion error.
C2_FatalShortCircuit ==
    (pc # "call" /\ attempt = 0 /\ IsFatalMsg(error_msg)) =>
        /\ pc = "raised"
        /\ calls = 1
        /\ slept = <<>>
        /\ err = API_KEY_ERROR
        /\ err # EXHAUSTED

C2_Witness ==
    /\ pc = "raised"
    /\ attempt = 0
    /\ IsFatalMsg(error_msg)
    /\ max_retries = 3
    /\ calls = 1

-----------------------------------------------------------------------------
(* extract_and_save_code called on its own *)

\* the most fragments a response text is made of
MaxBlocks == 2

\* the paths of the blocks, as written after the marker: plain, in a
\* directory, above the repository, absolute, absolute after a blank, through
\* a parent directory, blank, below the file a, the directory d as a file,
\* empty
BlockPaths ==
    { <<>>,
      <<"b">>,
      <<"d", "/", "b">>,
      <<".", ".", "/", "e">>,
      <<"/", "e">>,
      <<" ", "/", "e">>,
      <<"d", "/", ".", ".", "/", "e">>,
      <<" ">>,
      <<"a", "/", "b">>,
      <<"d">> }

\* the bodies of the blocks
BlockBodies == { <<"x", NL>>, <<NL, " ", "y", " ", NL>> }

\* the pieces of a response text: blocks, without and with a language tag, a
\* marker line that no fence follows, and prose
Fragments ==
    {Block(path, <<>>, body) \o <<NL>> : path \in BlockPaths, body \in BlockBodies}
    \cup {Block(path, <<"p", "y">>, <<"x", NL>>) \o <<NL>> : path \in BlockPaths}
    \cup { <<HDR, "c", NL>>, <<"o", "k", NL>> }

RECURSIVE TextsOf(_)
TextsOf(n) ==
    IF n = 0 THEN {<<>>}
    ELSE {t \o f : t \in TextsOf(n - 1), f \in Fragments}

Texts == UNION {TextsOf(n) : n \in 0..MaxBlocks}

\* a response text, and a repository that holds the file a
ExtractInit ==
    /\ Untouched
    /\ IdleCallAndGit
    /\ pc = "extract"
    /\ history = <<>>
    /\ prompt = "none"
    /\ max_retries = 0
    /\ res \in Texts

\* extract_and_save_code(res): it returns saved_files or an exception leaves it
ExtractCall ==
    /\ pc = "extract"
    /\ \E x \in {Extract} :
          /\ Written(x)
          /\ pc' = IF x.raised # "none" THEN "raised" ELSE "extracted"
          /\ err' = x.raised
    /\ UNCHANGED <<envVars, history, callVars, res, gitVars, requests, files,
                   status_msg, testRuns, posted>>

ExtractNext == ExtractCall

SpecExtract == ExtractInit /\ [][ExtractNext]_vars

\* the paths the claim calls unsafe
C3_Unsafe(path) ==
    \/ \E i \in 1..(Len(path) - 1) : path[i] = "." /\ path[i + 1] = "."
    \/ (path # <<>> /\ path[1] = "/")

\* the paths of the blocks of a text, as the loop sees them (line 107)
C3_Paths(text) ==
    LET found == FindAll(text)
    IN {Strip(found[i].path) : i \in 1..Len(found)}

\* C3: after extract_and_save_code, returned or left by an exception, no file
\* was opened under a path that holds ".." or starts with "/", no directory
\* was made but the parent of a block's path that holds no ".." and does not
\* start with "/", no such path is in the returned list, and no file or
\* directory exists outside the repository.
C3_PathSafety ==
    pc \in {"extracted", "raised"} =>
        LET paths == C3_Paths(res)
            safe == {path \in paths : ~C3_Unsafe(path)}
        IN /\ \A i \in 1..Len(saved) : saved[i] \in safe
           /\ \A i \in 1..Len(fsOps) :
                 /\ fsOps[i][1] = "open" => fsOps[i][2] \in safe
                 /\ fsOps[i][1] = "makedirs" =>
                       \E path \in safe : fsOps[i][2] = Dirname(path)
           /\ \A q \in DOMAIN fsFiles : StartsWith(q, CWD)
           /\ \A q \in fsDirs : q = <<>> \/ StartsWith(q, CWD)

\* a response with an absolute path and a path in the repository: the second
\* alone was written
C3_Witness ==
    /\ pc = "extracted"
    /\ \E path \in C3_Paths(res) : C3_Unsafe(path) /\ path[1] = "/"
    /\ saved = << <<"d", "/", "b">> >>
    /\ fsOps = << <<"makedirs", <<"d">> >>, <<"open", <<"d", "/", "b">> >> >>

\* the blocks the claim calls well-formed with a valid path: a path that is
\* not blank, holds no ".." and does not start with "/", a language tag or
\* none, a body
C11_Blocks ==
    {b \in [path : BlockPaths, lang : {<<>>, <<"p", "y">>}, body : BlockBodies] :
        /\ Strip(b.path) # <<>>
        /\ ~C3_Unsafe(Strip(b.path))
        /\ Block(b.path, b.lang, b.body) \o <<NL>> \in Fragments}

\* the sequences of such blocks with pairwise distinct paths
C11_Seqs ==
    UNION { {bs \in [1..n -> C11_Blocks] :
                \A i, j \in 1..n : i # j => bs[i].path # bs[j].path} :
            n \in 1..MaxBlocks }

\* the response text made of the blocks of bs
RECURSIVE C11_Text(_)
C11_Text(bs) ==
    IF bs = <<>> THEN <<>>
    ELSE Block(bs[1].path, bs[1].lang, bs[1].body) \o <<NL>> \o C11_Text(Tail(bs))

\* the files after the blocks of bs were written over the files before
C11_Expected(before, bs) ==
    LET named == {Resolve(bs[i].path) : i \in 1..Len(bs)}
    IN [q \in DOMAIN before \cup named |->
          IF q \in named
          THEN Strip(bs[CHOOSE i \in 1..Len(bs) : Resolve(bs[i].path) = q].body)
          ELSE before[q]]

\* C11: extract_and_save_code, given a text made of well-formed blocks with
\* valid, pairwise distinct relative paths, returns (no exception leaves it),
\* has written one file per block holding the block's body stripped, has left
\* every other file as it was, and returns the paths in the order of the
\* blocks.
C11_RoundTrip ==
    pc \in {"extracted", "raised"} =>
        \A bs \in C11_Seqs :
            C11_Text(bs) = res =>
                /\ pc = "extracted"
                /\ saved = [i \in 1..Len(bs) |-> bs[i].path]
                /\ Cardinality({Resolve(bs[i].path) : i \in 1..Len(bs)}) = Len(bs)
                /\ fsFiles = C11_Expected(C0.tree, bs)

-----------------------------------------------------------------------------
(* setup_git_branch, twice, then push_changes, called on their own *)

\* what the program may have written between the two: nothing, or one file
GitEdits ==
    {<<>>} \cup
    { <<path, content>> : path \in {<<"a">>, <<"b">>},
                          content \in {<<"x">>, <<"y">>, <<"z">>} }

GitInit ==
    /\ Untouched
    /\ pc = "git_setup1"
    /\ history = <<>>
    /\ prompt = "none"
    /\ max_retries = 0
    /\ attempt = 0
    /\ error_msg = <<>>
    /\ calls = 0
    /\ slept = <<>>
    /\ res = <<>>
    /\ \E r \in Repos :
        /\ branch = r.branch
        /\ heads = r.heads
        /\ remote = r.remote
        /\ fsFiles = RepoFiles(r)

\* setup_git_branch(), a first and a second time
GitSetup ==
    /\ pc \in {"git_setup1", "git_setup2"}
    /\ \E g \in {setup_git_branch(Git(branch, heads, fsFiles))} :
          /\ branch' = g.branch
          /\ heads' = g.heads
          /\ fsFiles' = g.files
    /\ pc' = IF pc = "git_setup1" THEN "git_setup2" ELSE "git_edit"
    /\ UNCHANGED <<envVars, history, callVars, res, err, fsDirs, fsOps, remote,
                   gitLog, pushed, runVars>>

GitEdit ==
    /\ pc = "git_edit"
    /\ \E e \in GitEdits :
          IF e = <<>> THEN UNCHANGED fsVars
          ELSE \E fs \in {WriteFile(Fs(fsFiles, fsDirs, fsOps), e[1], e[2])} :
                  /\ fsFiles' = fs.files
                  /\ fsDirs' = fs.dirs
                  /\ fsOps' = fs.ops
    /\ pc' = "git_push"
    /\ UNCHANGED <<envVars, history, callVars, res, err, gitVars, runVars>>

\* push_changes()
GitPush ==
    /\ pc = "git_push"
    /\ \E r \in {push_changes(Git(branch, heads, fsFiles), remote, gitLog)} :
          /\ heads' = r.git.heads
          /\ remote' = r.remote
          /\ gitLog' = r.log
          /\ pushed' = IF r.ret THEN "True" ELSE "False"
    /\ pc' = "git_pushed"
    /\ UNCHANGED <<envVars, history, callVars, res, err, fsVars, branch,
                   runVars>>

GitNext ==
    \/ GitSetup
    \/ GitEdit
    \/ GitPush

SpecGit == GitInit /\ [][GitNext]_vars

\* the files of the repository are those of the current branch's last commit
C4_NothingToCommit == WorkTree(fsFiles) = heads[branch][Len(heads[branch])].tree

\* C4: a push_changes call made when the working tree holds no change returns
\* False and leaves the local branches, origin's branches and the record of
\* commits and pushes as they were.
C4_NoOpPush ==
    [][(pc \in {"git_push", "publish"} /\ C4_NothingToCommit) =>
           /\ pushed' = "False"
           /\ heads' = heads
           /\ remote' = remote
           /\ gitLog' = gitLog]_vars

C4_Witness ==
    /\ pc = "git_pushed"
    /\ C4_NothingToCommit
    /\ pushed = "False"
    /\ gitLog = <<>>

\* C9: after the first and after the second of two setup_git_branch calls in a
\* row the current branch is the nightly branch.
C9_OnBranchAfterEachCall ==
    pc \in {"git_setup2", "git_edit"} => branch = TODAY_BRANCH

-----------------------------------------------------------------------------
(* Claims about main *)

\* the request layer raised: the exception in flight is one of its two
RequestError == err \in {API_KEY_ERROR, EXHAUSTED}

\* the number of times stage was handed to the request layer
Count(stage) == Cardinality({i \in 1..Len(requests) : requests[i] = stage})

\* every run_tests call so far reported failure, and there was one
AllValidationsFailed ==
    /\ testRuns # <<>>
    /\ \A i \in 1..Len(testRuns) : ~testRuns[i].passed

\* C5: the repair prompt is sent at most once and the tests run at most
\* twice; a run that is over, in which every validation failed and the
\* request layer raised nothing, has asked for the documentation after its one
\* repair, has called push_changes, holds the status "Auto-fix Failed" and did
\* not go through the except clause.
C5_RepairBound ==
    /\ Count("repair") <= 1
    /\ Len(testRuns) <= 2
    /\ (pc = "done" /\ AllValidationsFailed /\ ~RequestError) =>
           /\ err = "none"
           /\ requests = <<"plan", "implement", "repair", "document">>
           /\ Len(testRuns) = 2
           /\ status_msg = <<"Auto-fix Failed">>
           /\ pushed # "none"

\* C6: once the extraction of the implement stage has returned an empty list
\* (line 171 has run and files is empty), the tests have not run, no repair
\* prompt was sent, and the request after the implement request is the
\* documentation request.
C6_EmptyImplementation ==
    (status_msg # <<>> /\ files = <<>>) =>
        /\ testRuns = <<>>
        /\ requests = <<"plan", "implement", "document">>

C6_Witness ==
    /\ pc = "done"
    /\ status_msg = <<"Work Complete (no files generated)">>
    /\ files = <<>>
    /\ requests = <<"plan", "implement", "document">>
    /\ pushed = "False"

\* after a request-layer error: the request that raised is the last one made,
\* the tests have run only as often as the stages before it run them,
\* push_changes was not called, nothing was committed or pushed
C7_NothingAfterTheError ==
    (pc \in {"failed", "done"} /\ RequestError) =>
        /\ requests[Len(requests)] = prompt
        /\ Count(prompt) = 1
        /\ prompt \in {"plan", "implement"} => testRuns = <<>>
        /\ prompt = "repair" => Len(testRuns) = 1
        /\ pushed = "none"
        /\ gitLog = <<>>

\* C7 as claimed: after a request-layer error nothing more is requested,
\* tested, committed or pushed, and the run ends with the failure
\* notification, carrying the error, posted.
C7_AsClaimed ==
    /\ C7_NothingAfterTheError
    /\ (pc = "done" /\ RequestError) =>
           posted = << <<"Nightly Agent Failed:", err>> >>

\* C7, amended: the failure notification is posted when a webhook is
\* configured, and nothing is posted when none is.
C7_FatalStopsTheRun ==
    /\ C7_NothingAfterTheError
    /\ (pc = "done" /\ RequestError) =>
           posted = IF DISCORD_WEBHOOK_URL
                    THEN << <<"Nightly Agent Failed:", err>> >>
                    ELSE <<>>

C7_Witness ==
    /\ pc = "done"
    /\ err = EXHAUSTED
    /\ prompt = "repair"
    /\ posted = << <<"Nightly Agent Failed:", EXHAUSTED>> >>

\* C8: with a webhook configured, a run that got past the configuration check
\* has posted exactly one notification when it is over, and never more than
\* one before.
C8_OneNotification ==
    DISCORD_WEBHOOK_URL =>
        /\ Len(posted) <= 1
        /\ pc = "done" => Len(posted) = 1
        /\ pc # "done" => posted = <<>>

C8_Witness ==
    /\ pc = "done"
    /\ DISCORD_WEBHOOK_URL
    /\ status_msg = <<"Auto-fix Failed">>
    /\ posted = << <<"Nightly Report:", "Auto-fix Failed">> >>

\* C10: every commit push_changes made was made on the nightly branch, the
\* default branch holds the commits it held before the run, and origin was
\* sent no branch but the nightly one.
C10_BranchIsolation ==
    /\ \A i \in 1..Len(gitLog) :
          gitLog[i][1] = "commit" => gitLog[i][2] = TODAY_BRANCH
    /\ heads[MAIN_BRANCH] = <<C0>>
    /\ DOMAIN remote \subseteq {TODAY_BRANCH}

\* C12: when the key is missing or the model is None, main ends without a
\* stage: it goes from its start to its end and nowhere else, no request was
\* made and chat.send_message was not called, no directory was made and no
\* file opened, push_changes was not called, nothing was committed, pushed or
\* posted, and no step changes the branch, the branches, origin or the files.
C12_ConfigAbort ==
    /\ []((~GEMINI_API_KEY \/ model = "None") =>
            /\ pc \in {"start", "end"}
            /\ requests = <<>>
            /\ calls = 0
            /\ history = <<>>
            /\ fsOps = <<>>
            /\ testRuns = <<>>
            /\ gitLog = <<>>
            /\ pushed = "none"
            /\ posted = <<>>)
    /\ [][(~GEMINI_API_KEY \/ model = "None") =>
            UNCHANGED <<branch, heads, remote, fsFiles, fsDirs>>]_vars

\* a key, no model, a webhook and the repository not on the nightly branch:
\* main is over
C12_Witness ==
    /\ pc = "end"
    /\ GEMINI_API_KEY
    /\ model = "None"
    /\ DISCORD_WEBHOOK_URL
    /\ branch = MAIN_BRANCH
    /\ TODAY_BRANCH \notin DOMAIN heads
    /\ posted = <<>>

\* the waits follow the rule "the previous wait plus increment, at most
\* ceiling"
C13_Backoff(waits, increment, ceiling) ==
    \A i \in 1..(Len(waits) - 1) :
        waits[i + 1] = Min({waits[i] + increment, ceiling})

\* C13 as claimed: the waits of a call grow by a fixed increment up to a
\* ceiling: some increment above zero and some ceiling above the first wait
\* give every wait from the one before it (with the ceiling at the first wait
\* no wait would ever be increased).
C13_AsClaimed ==
    Len(slept) >= 2 =>
        \E increment \in 1..SLEEP_SECONDS :
            \E ceiling \in (slept[1] + 1)..(slept[1] + MaxRetriesTried * SLEEP_SECONDS) :
                C13_Backoff(slept, increment, ceiling)

\* C13, amended: every wait of a call is the same SLEEP_SECONDS, whatever the
\* errors were; there is one wait per failed attempt that was not fatal.
C13_ConstantWait ==
    /\ \A i \in 1..Len(slept) : slept[i] = SLEEP_SECONDS
    /\ Len(slept) = attempt

\* a call that found the quota exhausted three times
C13_Witness ==
    /\ pc = "raised"
    /\ err = EXHAUSTED
    /\ Contains(error_msg, <<"4", "2", "9">>)
    /\ slept = <<SLEEP_SECONDS, SLEEP_SECONDS, SLEEP_SECONDS>>

\* C14: once push_changes has returned True, the commit it made is the newest
\* of the nightly branch and holds the files of the working tree, and origin's
\* nightly branch is that branch, the commit included.
C14_PushedMeansReceived ==
    pushed = "True" =>
        /\ TODAY_BRANCH \in DOMAIN heads
        /\ heads[TODAY_BRANCH][Len(heads[TODAY_BRANCH])] =
               Commit("run", WorkTree(fsFiles))
        /\ TODAY_BRANCH \in DOMAIN remote
        /\ remote[TODAY_BRANCH] = heads[TODAY_BRANCH]

\* the requests that have returned: all but the one in progress or failed
C15_Returned ==
    IF pc \in Stages \/ RequestError
    THEN SubSeq(requests, 1, Len(requests) - 1)
    ELSE requests

C16_FailedOnlyByRequest ==
    (pc = "failed" \/ (pc = "done" /\ err # "none")) => RequestError

\* the blocks of the response texts
C17_Blocks ==
    {b \in [path : BlockPaths, lang : {<<>>, <<"p", "y">>}, body : BlockBodies] :
        Block(b.path, b.lang, b.body) \o <<NL>> \in Fragments}

\* a block the loop is to skip: its path is empty, blank or unsafe
C17_Skipped(b) == Strip(b.path) = <<>> \/ C3_Unsafe(Strip(b.path))

\* the sequences of blocks that hold a block to skip
C17_Seqs ==
    UNION { {bs \in [1..n -> C17_Blocks] : \E i \in 1..n : C17_Skipped(bs[i])} :
            n \in 1..MaxBlocks }

\* the blocks of bs that are not to be skipped, in their order
RECURSIVE C17_Valid(_)
C17_Valid(bs) ==
    IF bs = <<>> THEN <<>>
    ELSE IF C17_Skipped(Head(bs)) THEN C17_Valid(Tail(bs))
    ELSE <<Head(bs)>> \o C17_Valid(Tail(bs))

\* the files after the blocks of bs were written in their order
C17_Expected(before, bs) ==
    LET named == {Resolve(bs[i].path) : i \in 1..Len(bs)}
        last(q) == Max({i \in 1..Len(bs) : Resolve(bs[i].path) = q})
    IN [q \in DOMAIN before \cup named |->
          IF q \in named THEN Strip(bs[last(q)].body) ELSE before[q]]

\* C17: extract_and_save_code, given a text of blocks of which one at least
\* has an empty, blank or unsafe path, returns (no exception leaves it) the
\* paths of the other blocks in their order, and has written each of them
\* with its body and no other file.
C17_SkipAndGoOn ==
    pc \in {"extracted", "raised"} =>
        \A bs \in C17_Seqs :
            C11_Text(bs) = res =>
                LET valid == C17_Valid(bs)
                IN /\ pc = "extracted"
                   /\ saved = [i \in 1..Len(valid) |-> Strip(valid[i].path)]
                   /\ fsFiles = C17_Expected(C0.tree, valid)

\* C18: once push_changes has been called, main is at its report or over, no
\* exception was raised, the documentation request is the last request and
\* has returned, a repair request came before it with both runs of the tests,
\* and no step after the call makes a request, calls chat.send_message,
\* writes a file, runs the tests, or commits or pushes again; push_changes is
\* called at line 190 only, and only once.
C18_PushIsLast ==
    /\ [](pushed # "none" =>
            /\ pc \in {"notify", "done"}
            /\ err = "none"
            /\ requests[Len(requests)] = "document"
            /\ Count("document") = 1
            /\ Len(history) = 2 * Len(requests)
            /\ Count("repair") <= 1
            /\ Count("repair") = 1 => Len(testRuns) = 2
            /\ Len(gitLog) <= 2)
    /\ [][pushed # "none" =>
            UNCHANGED <<pushed, gitLog, heads, remote, branch, requests, calls,
                        history, fsFiles, fsDirs, fsOps, saved, testRuns>>]_vars
    /\ [][pushed' # pushed => (pc = "publish" /\ pushed = "none")]_vars

\* a run that repaired, documented, pushed and reported
C18_Witness ==
    /\ pc = "done"
    /\ pushed = "True"
    /\ requests = <<"plan", "implement", "repair", "document">>
    /\ Len(testRuns) = 2
    /\ gitLog = << <<"commit", TODAY_BRANCH>>, <<"push", TODAY_BRANCH, TRUE>> >>

\* C19: every run_tests call returned: with the runner missing or out of time
\* it returned passed = False and the log that names the condition, and
\* otherwise passed = True exactly for the exit status 0; the step of main
\* that runs the tests first and finds them failed asks for the repair with
\* no exception raised, and the step that runs them again asks for the
\* documentation.
C19_TestFailuresRepair ==
    /\ [](\A i \in 1..Len(testRuns) :
            LET t == testRuns[i]
            IN /\ t.raised = "none"
               /\ t.outcome = "FileNotFoundError" =>
                     (~t.passed /\ t.log = "pytest not found")
               /\ t.outcome = "TimeoutExpired" =>
                     (~t.passed /\ t.log = "Tests timed out")
               /\ t.outcome \notin {"FileNotFoundError", "TimeoutExpired"} =>
                     (t.passed <=> t.outcome = "exit 0"))
    /\ [][pc = "validate" =>
            /\ Len(testRuns') = Len(testRuns) + 1
            /\ ~testRuns'[Len(testRuns')].passed =>
                  /\ pc' = "repair"
                  /\ requests' = Append(requests, "repair")
                  /\ err' = "none"]_vars
    /\ [][pc = "revalidate" =>
            /\ Len(testRuns') = Len(testRuns) + 1
            /\ pc' = "document"
            /\ err' = "none"]_vars

\* the runner was missing, the repair was asked for, the runner ran out of
\* time, and the run went on to its end and its push
C19_Witness ==
    /\ pc = "done"
    /\ Len(testRuns) = 2
    /\ testRuns[1].outcome = "FileNotFoundError"
    /\ testRuns[2].outcome = "TimeoutExpired"
    /\ requests = <<"plan", "implement", "repair", "document">>
    /\ status_msg = <<"Auto-fix Failed">>
    /\ err = "none"
    /\ pushed # "none"

\* main has returned
C20_Over == pc \in {"end", "done"}

\* what a run costs: each stage's request at most once, so four at most, at
\* most max_retries chat.send_message calls in each, the tests at most twice
C20_Cost ==
    /\ Len(requests) <= 4
    /\ \A stage \in Stages : Count(stage) <= 1
    /\ calls <= max_retries
    /\ max_retries \in {0, DEFAULT_MAX_RETRIES}
    /\ Len(testRuns) <= 2

\* C20 as claimed: main stays within its cost, and once over it has called
\* push_changes (published, or no changes) or gone through its except clause
\* (failed).
C20_AsClaimed ==
    /\ C20_Cost
    /\ C20_Over => (pushed # "none" \/ err # "none")

\* C20, amended: main comes to its end, within its cost; it ends at the
\* configuration check, with nothing done, exactly when the key or the model
\* is missing, and otherwise after push_changes or after its except clause,
\* never both.
C20_Terminates ==
    /\ <>C20_Over
    /\ [](/\ C20_Cost
          /\ pc = "end" => (~GEMINI_API_KEY \/ model = "None")
          /\ pc = "end" => (pushed = "none" /\ err = "none")
          /\ pc = "done" => (GEMINI_API_KEY /\ model # "None")
          /\ pc = "done" => (pushed # "none" <=> err = "none"))

\* the longest run: four requests, the tests twice, and the documentation
\* request given up after its third attempt
C20_Witness ==
    /\ pc = "done"
    /\ Len(requests) = 4
    /\ Len(testRuns) = 2
    /\ calls = DEFAULT_MAX_RETRIES
    /\ err = EXHAUSTED
    /\ pushed = "none"

=============================================================================
